---- MODULE Spec2Model ----
(***************************************************************************)
(* NYC crash dashboard (app.py): the module-level dataset loader and the   *)
(* Dash callback update_report, which filters the in-memory DataFrame and  *)
(* builds five figures and a summary line.                                 *)
(*                                                                         *)
(* A DataFrame is [columns, rows]: columns is the set of column names and  *)
(* rows is the sequence of rows in file order, run-length encoded: a run   *)
(* [row, n] stands for n consecutive rows with the same cells.  A row is a *)
(* function from column name to cell; a cell is NaN (<<>>) or <<value>>.   *)
(* A callback argument is None (<<>>) or <<value>>.                        *)
(***************************************************************************)
EXTENDS Integers, Sequences, FiniteSets

VARIABLES
    csv,                          \* crash_person_merged.csv as read_csv parses it
    pc,                           \* "import" while the module body runs, then "serving"
    df,                           \* the global DataFrame
    borough_options,
    year_options,
    vehicle_cols,
    vehicle_type_options,
    factor_cols,
    contributing_factor_options,
    np_random,                    \* state of NumPy's global generator
    seeded_draws,                 \* what the generator seeded with 42 draws
    last                          \* the update_report call whose response is not yet sent:
                                  \* its arguments, its working set and what it returned

vars == <<csv, pc, df, borough_options, year_options, vehicle_cols,
          vehicle_type_options, factor_cols, contributing_factor_options,
          np_random, seeded_draws, last>>

globals == <<df, borough_options, year_options, vehicle_cols,
             vehicle_type_options, factor_cols, contributing_factor_options,
             np_random>>

\* ---------------------------------------------------------------- bounds
\* Copies of each ordinary row of the pool a dataset may hold.
MaxCopies == 1
\* Rows by which the bulk run may take the mapped rows above the sampling cap.
MaxExcess == 1
\* Number of distinct states of the global generator.
RngStates == 2
\* Largest click count the button reports.
MaxClicks == 2
\* Number of quantiles that stand for the positions a generator can draw.
DrawResolution == 2

\* ------------------------------------------------------------ cell values
NaN == <<>>
None == <<>>
isna(cell) == cell = NaN
notna(cell) == cell # NaN

\* ----------------------------------------------------------- column names
VehicleColumnNames == {"VEHICLE TYPE CODE 1", "VEHICLE TYPE CODE 2"}
FactorColumnNames == {"CONTRIBUTING FACTOR VEHICLE 1", "CONTRIBUTING FACTOR VEHICLE 2"}
RequiredColumns ==
    {"BOROUGH", "NUMBER OF PERSONS INJURED", "NUMBER OF PERSONS KILLED"}
        \cup VehicleColumnNames \cup FactorColumnNames
OptionalColumns ==
    {"CRASH DATE", "CRASH_YEAR", "HOUR", "DAY_OF_WEEK", "LATITUDE", "LONGITUDE"}
AllColumns == RequiredColumns \cup OptionalColumns

\* The column sets a source file may have: the required columns, a crash
\* date or a precomputed year (or both), and any of the other optional ones.
Schemas ==
    {RequiredColumns \cup opt : opt \in
        {o \in SUBSET OptionalColumns : "CRASH DATE" \in o \/ "CRASH_YEAR" \in o}}

\* ------------------------------------------------------- run-length rows
RECURSIVE len(_)
len(rows) == IF rows = <<>> THEN 0 ELSE Head(rows).n + len(Tail(rows))

RECURSIVE Compact(_)
Compact(rows) ==
    IF rows = <<>> THEN <<>>
    ELSE IF Head(rows).n = 0 THEN Compact(Tail(rows))
         ELSE <<Head(rows)>> \o Compact(Tail(rows))

Project(row, columns) == [c \in columns |-> row[c]]

\* ------------------------------------------------------------- the pool
SampleCap == 10000

Row(b, d, y, inj, k, v1, v2, f1, f2, h, dow, lat, lon) ==
    [c \in AllColumns |->
        CASE c = "BOROUGH" -> b
          [] c = "CRASH DATE" -> d
          [] c = "CRASH_YEAR" -> y
          [] c = "NUMBER OF PERSONS INJURED" -> inj
          [] c = "NUMBER OF PERSONS KILLED" -> k
          [] c = "VEHICLE TYPE CODE 1" -> v1
          [] c = "VEHICLE TYPE CODE 2" -> v2
          [] c = "CONTRIBUTING FACTOR VEHICLE 1" -> f1
          [] c = "CONTRIBUTING FACTOR VEHICLE 2" -> f2
          [] c = "HOUR" -> h
          [] c = "DAY_OF_WEEK" -> dow
          [] c = "LATITUDE" -> lat
          [] c = "LONGITUDE" -> lon]

\* Dates are the fields <<year, month, day>> of the text "YYYY-MM-DD".
\* Coordinates are in tenths of a degree.
Pool == <<
    Row(<<"BROOKLYN">>, <<<<2020, 3, 1>>>>, <<2020>>, <<1>>, <<1>>,
        <<"Sedan">>, <<"Taxi">>, <<"Alcohol Involvement">>, NaN,
        <<8>>, <<1>>, <<407>>, <<-739>>),
    Row(<<"QUEENS">>, <<<<2019, 12, 31>>>>, <<2019>>, <<2>>, <<0>>,
        <<"Taxi">>, NaN, NaN, <<"Alcohol Involvement">>,
        <<23>>, <<2>>, <<407>>, NaN),
    Row(NaN, <<<<2020, 2, 30>>>>, NaN, NaN, <<1>>,
        NaN, NaN, NaN, NaN,
        NaN, <<3>>, <<406>>, <<-740>>) >>

Frame(cols, c1, c2, c3) ==
    [columns |-> cols,
     rows |-> Compact(<<[row |-> Project(Pool[1], cols), n |-> c1],
                        [row |-> Project(Pool[2], cols), n |-> c2],
                        [row |-> Project(Pool[3], cols), n |-> c3]>>)]

\* The files: each pool row 0..MaxCopies times, or the first and the third
\* row (both with coordinates) as bulk runs that together reach the
\* sampling cap or pass it by up to MaxExcess rows.
Files ==
    {Frame(cols, c1, c2, c3) :
        cols \in Schemas, c1 \in 0..MaxCopies, c2 \in 0..MaxCopies, c3 \in 0..MaxCopies}
    \cup
    {Frame(cols, SampleCap \div 2, c2, SampleCap \div 2 + e) :
        cols \in Schemas, c2 \in 0..MaxCopies, e \in 0..MaxExcess}

\* ------------------------------------------------------------ the loader
\* pd.to_datetime(..., errors="coerce"): a Timestamp for a calendar date
\* within the Timestamp range, NaT otherwise.
\* Timestamp.min is 1677-09-21 and Timestamp.max is 2262-04-11.
DateLeq(a, b) ==
    \/ a[1] < b[1]
    \/ a[1] = b[1] /\ a[2] < b[2]
    \/ a[1] = b[1] /\ a[2] = b[2] /\ a[3] <= b[3]
IsLeap(y) == (y % 4 = 0 /\ y % 100 # 0) \/ y % 400 = 0
DaysInMonth(y, m) ==
    IF m = 2 THEN (IF IsLeap(y) THEN 29 ELSE 28)
    ELSE IF m \in {4, 6, 9, 11} THEN 30 ELSE 31
to_datetime(cell) ==
    IF isna(cell) THEN NaN
    ELSE LET y == cell[1][1]
             m == cell[1][2]
             d == cell[1][3]
         IN IF /\ m \in 1..12
               /\ d \in 1..DaysInMonth(y, m)
               /\ DateLeq(<<1677, 9, 22>>, cell[1])
               /\ DateLeq(cell[1], <<2262, 4, 11>>)
            THEN cell ELSE NaN
\* Series.dt.year
dt_year(cell) == IF isna(cell) THEN NaN ELSE <<cell[1][1]>>

\* Lines 17-19: derive CRASH_YEAR when only the date column is there.
EnsureCrashYear(frame) ==
    IF "CRASH DATE" \in frame.columns /\ "CRASH_YEAR" \notin frame.columns
    THEN [columns |-> frame.columns \cup {"CRASH_YEAR"},
          rows |-> [i \in 1..Len(frame.rows) |->
              LET r == frame.rows[i].row
                  ts == to_datetime(r["CRASH DATE"])
              IN [row |-> [c \in frame.columns \cup {"CRASH_YEAR"} |->
                              IF c = "CRASH DATE" THEN ts
                              ELSE IF c = "CRASH_YEAR" THEN dt_year(ts)
                              ELSE r[c]],
                  n |-> frame.rows[i].n]]]
    ELSE frame

\* df[col].dropna().unique(), as the set of the values
dropna_unique(frame, col) ==
    {frame.rows[i].row[col][1] :
        i \in {j \in 1..Len(frame.rows) : notna(frame.rows[j].row[col])}}

RECURSIVE sorted(_)
sorted(S) ==
    IF S = {} THEN <<>>
    ELSE LET m == CHOOSE x \in S : \A y \in S : x <= y
         IN <<m>> \o sorted(S \ {m})

Range(s) == {s[i] : i \in 1..Len(s)}

\* Lines 22-35.  Lists of strings are kept as the set of their elements.
BoroughOptions(frame) ==
    IF "BOROUGH" \in frame.columns THEN dropna_unique(frame, "BOROUGH") ELSE {}
YearOptions(frame) ==
    IF "CRASH_YEAR" \in frame.columns
    THEN sorted(dropna_unique(frame, "CRASH_YEAR")) ELSE <<>>
VehicleCols(frame) == frame.columns \cap VehicleColumnNames
FactorCols(frame) == frame.columns \cap FactorColumnNames
OptionsAcross(frame, cols) == UNION {dropna_unique(frame, c) : c \in cols}

injury_type_options == {"all", "injured", "killed"}

\* ------------------------------------------------------ python truthiness
TruthyStr(v) == v # None /\ v[1] # ""
TruthyNum(v) == v # None /\ v[1] # 0
\* "is not None" where the code tests truthiness
TruthyList_notnone(v) == v # None
TruthyList(v) == v # None /\ v[1] # {}

\* ------------------------------------------------------- pandas helpers
RECURSIVE TakeFrom(_, _, _)
\* the runs from position i on whose mask entry is true
TakeFrom(rows, mask, i) ==
    IF i > Len(rows) THEN <<>>
    ELSE IF mask[i] THEN <<rows[i]>> \o TakeFrom(rows, mask, i + 1)
         ELSE TakeFrom(rows, mask, i + 1)

\* filtered[mask]
BooleanIndex(rows, mask) == TakeFrom(rows, mask, 1)

\* filtered[col] == value
EqMask(rows, col, value) == [i \in 1..Len(rows) |-> rows[i].row[col] = <<value>>]
\* a comparison that lets zero counts through
GtZeroMask_ge(rows, col) ==
    [i \in 1..Len(rows) |-> notna(rows[i].row[col]) /\ rows[i].row[col][1] >= 0]
\* filtered[col] > 0
GtZeroMask(rows, col) ==
    [i \in 1..Len(rows) |-> notna(rows[i].row[col]) /\ rows[i].row[col][1] > 0]
\* filtered[col].isin(values)
isin(rows, col, values) ==
    [i \in 1..Len(rows) |-> notna(rows[i].row[col]) /\ rows[i].row[col][1] \in values]

\* a mask that asks every column to match (&= for |=)
AnyColumnMask_and(mask, cols, frame_columns, rows, values) ==
    [i \in 1..Len(rows) |->
        \A c \in cols \cap frame_columns :
            notna(rows[i].row[c]) /\ rows[i].row[c][1] \in values]
\* mask = Series(False); for c in cols: if c in columns: mask |= isin(...)
RECURSIVE AnyColumnMask(_, _, _, _, _)
AnyColumnMask(mask, cols, frame_columns, rows, values) ==
    IF cols = {} THEN mask
    ELSE LET c == CHOOSE x \in cols : TRUE
             m == IF c \in frame_columns
                  THEN [i \in 1..Len(rows) |-> mask[i] \/ isin(rows, c, values)[i]]
                  ELSE mask
         IN AnyColumnMask(m, cols \ {c}, frame_columns, rows, values)

\* Lines 147-148.
FilterBorough(rows, borough_value) ==
    IF TruthyStr(borough_value)
    THEN BooleanIndex(rows, EqMask(rows, "BOROUGH", borough_value[1])) ELSE rows
\* Lines 149-150.
FilterYear(rows, year_value) ==
    IF TruthyNum(year_value)
    THEN BooleanIndex(rows, EqMask(rows, "CRASH_YEAR", year_value[1])) ELSE rows
\* Lines 151-152.
FilterInjured(rows, injury_type_value) ==
    IF injury_type_value = "injured"
    THEN BooleanIndex(rows, GtZeroMask(rows, "NUMBER OF PERSONS INJURED")) ELSE rows
\* Lines 153-154.
FilterKilled(rows, injury_type_value) ==
    IF injury_type_value = "killed"
    THEN BooleanIndex(rows, GtZeroMask(rows, "NUMBER OF PERSONS KILLED")) ELSE rows
\* Lines 155-160 and 161-166.
FilterAnyColumn(rows, cols, frame_columns, list) ==
    IF TruthyList(list)
    THEN BooleanIndex(rows, AnyColumnMask([i \in 1..Len(rows) |-> FALSE], cols, frame_columns, rows, list[1]))
    ELSE rows

\* Lines 145-166: the working set after the five filters.
ApplyFilters(frame, vcols, fcols, borough_value, year_value, injury_type_value, vehicle_types, contrib_factors) ==
    FilterAnyColumn(
        FilterAnyColumn(
            FilterKilled(
                FilterInjured(
                    FilterYear(FilterBorough(frame.rows, borough_value), year_value),
                    injury_type_value),
                injury_type_value),
            vcols, frame.columns, vehicle_types),
        fcols, frame.columns, contrib_factors)

\* ----------------------------------------------------------- aggregation
\* an emptiness test that never fires
empty_never(rows) == FALSE
\* DataFrame.empty
empty(rows) == len(rows) = 0

RECURSIVE CountWhere(_, _, _, _)
\* number of rows whose cells in the key columns are the given key
CountWhere(rows, cols, key, i) ==
    IF i > Len(rows) THEN 0
    ELSE (IF \A k \in 1..Len(cols) : rows[i].row[cols[k]] = key[k]
          THEN rows[i].n ELSE 0) + CountWhere(rows, cols, key, i + 1)

\* The group keys of groupby(cols, dropna=...): one tuple of cells per
\* distinct combination, combinations holding a NaN left out when dropna.
GroupKeys(rows, cols, dropna) ==
    {key \in {[k \in 1..Len(cols) |-> rows[i].row[cols[k]]] : i \in 1..Len(rows)} :
        dropna => \A k \in 1..Len(cols) : notna(key[k])}

\* groupby(cols, dropna=...).size(): group key -> number of rows
groupby_size(rows, cols, dropna) ==
    [key \in GroupKeys(rows, cols, dropna) |-> CountWhere(rows, cols, key, 1)]

\* groupby("CRASH_YEAR").size().reset_index(name="count"): groups are sorted
\* by key, NaN keys dropped
YearCounts(rows) ==
    LET size == groupby_size(rows, <<"CRASH_YEAR">>, TRUE)
        years == sorted({key[1][1] : key \in DOMAIN size})
    IN [i \in 1..Len(years) |->
           [CRASH_YEAR |-> years[i], count |-> size[<<<<years[i]>>>>]]]

\* Series.sum(): NaN cells are skipped
RECURSIVE sum(_, _)
sum(rows, col) ==
    IF rows = <<>> THEN 0
    ELSE (IF notna(Head(rows).row[col])
          THEN Head(rows).n * Head(rows).row[col][1] ELSE 0) + sum(Tail(rows), col)

\* dropna(subset=cols)
dropna(rows, cols) ==
    BooleanIndex(rows, [i \in 1..Len(rows) |-> \A c \in cols : notna(rows[i].row[c])])

\* ------------------------------------------------------------- sampling
\* Which rows a generator picks is the library's business.  The model keeps
\* of a generator that its draws are a function of its state: a draw is a
\* quantile in 0..DrawResolution-1 that stands for every position of the
\* frame it maps to.  The draws of the generator seeded with 42 are the
\* same in every call; the model leaves them open (seeded_draws, chosen at
\* start and never changed), so the rows NumPy picks are among its outcomes.
Quantiles == 0..(DrawResolution - 1)
Draws == [1..MaxExcess -> Quantiles]
\* the position (0-based) a quantile stands for among limit rows
Position(q, limit) == (q * limit) \div DrawResolution

\* the draws of a generator seeded by random_state
SeededDraws(seed) == seeded_draws
\* the draws of the global generator in a state, and the state after a use
GlobalDraws(state) == [j \in 1..MaxExcess |-> (state + j - 1) % DrawResolution]
Advance(state) == (state + 1) % RngStates

\* rows without the row at position p (1-based, in rows not runs)
RECURSIVE RemoveAt(_, _)
RemoveAt(rows, p) ==
    IF p <= Head(rows).n
    THEN Compact(<<[Head(rows) EXCEPT !.n = @ - 1]>>) \o Tail(rows)
    ELSE <<Head(rows)>> \o RemoveAt(Tail(rows), p - Head(rows).n)

\* n rows drawn without replacement, told by the k rows left out (draws j..)
RECURSIVE LeaveOut(_, _, _, _)
LeaveOut(rows, k, draws, j) ==
    IF k = 0 THEN rows
    ELSE LeaveOut(RemoveAt(rows, Position(draws[j], len(rows)) + 1), k - 1, draws, j + 1)

\* DataFrame.sample(n, random_state=...): n of the rows, drawn with a
\* generator seeded by random_state, or with the global generator (which
\* moves on) when random_state is None.  The result holds the drawn rows
\* as runs (how many of each row) and, as its order, the draws that
\* permuted them.  [rows, order, np_random]
Sampled(rows, n, draws, state_after) ==
    [rows |-> LeaveOut(rows, len(rows) - n, draws, 1),
     order |-> SubSeq(draws, 1, len(rows) - n),
     np_random |-> state_after]
sample(rows, n, random_state, global_state) ==
    IF random_state = None
    THEN Sampled(rows, n, GlobalDraws(global_state), Advance(global_state))
    ELSE Sampled(rows, n, SeededDraws(random_state[1]), global_state)

\* a sample drawn with the global generator
MapRandomState_global == None
\* random_state=42
MapRandomState == <<42>>
\* Lines 191-192: at most SampleCap rows; rows not sampled keep the file's
\* order (order <<>>).  [rows, order, np_random]
CapRows(map_df, global_state) ==
    IF len(map_df) > SampleCap
    THEN sample(map_df, SampleCap, MapRandomState, global_state)
    ELSE [rows |-> map_df, order |-> <<>>, np_random |-> global_state]
\* Lines 190-192. [rows, order, np_random]
MapFrame(rows, global_state) ==
    CapRows(dropna(rows, {"LATITUDE", "LONGITUDE"}), global_state)

\* ------------------------------------------------------- plotly express
empty_fig == [type |-> "empty", data |-> <<>>]
ValueError == [type |-> "ValueError", data |-> <<>>]

\* A plotly express call on a frame: every column it is told to use must
\* be a column of the frame, else it raises ValueError.
px(type, frame_columns, uses, data) ==
    IF uses \subseteq frame_columns THEN [type |-> type, data |-> data]
    ELSE ValueError

\* str(n) for n >= 0
DigitChar(d) ==
    CASE d = 0 -> "0" [] d = 1 -> "1" [] d = 2 -> "2" [] d = 3 -> "3"
      [] d = 4 -> "4" [] d = 5 -> "5" [] d = 6 -> "6" [] d = 7 -> "7"
      [] d = 8 -> "8" [] d = 9 -> "9"
RECURSIVE str(_)
str(n) == IF n < 10 THEN DigitChar(n) ELSE str(n \div 10) \o DigitChar(n % 10)

\* ---------------------------------------------------------- update_report
\* Lines 172-173.
BarFig(filtered) ==
    px("bar", {"BOROUGH", "count"}, {"BOROUGH", "count"}, groupby_size(filtered, <<"BOROUGH">>, FALSE))
\* Lines 175-176.
TsFig(filtered) ==
    px("line", {"CRASH_YEAR", "count"}, {"CRASH_YEAR", "count"}, YearCounts(filtered))
\* Lines 178-182.
HeatFig(columns, filtered) ==
    IF "HOUR" \in columns /\ "DAY_OF_WEEK" \in columns
    THEN px("density_heatmap", {"DAY_OF_WEEK", "HOUR", "count"}, {"HOUR", "DAY_OF_WEEK", "count"},
            groupby_size(filtered, <<"DAY_OF_WEEK", "HOUR">>, TRUE))
    ELSE empty_fig
\* Lines 184-187.
PieFig(filtered) ==
    px("pie", {"category", "count"}, {"category", "count"},
       [Injured |-> sum(filtered, "NUMBER OF PERSONS INJURED"),
        Killed |-> sum(filtered, "NUMBER OF PERSONS KILLED")])
\* Lines 189-197: the map figure and the global generator's state after it.
\* scatter_mapbox is told to use LATITUDE, LONGITUDE, BOROUGH (hover_name)
\* and CRASH DATE (hover_data).  [fig, np_random]
MapOf(columns, map_df) ==
    [fig |-> px("scatter_mapbox", columns, {"LATITUDE", "LONGITUDE", "BOROUGH", "CRASH DATE"},
                [rows |-> map_df.rows, order |-> map_df.order]),
     np_random |-> map_df.np_random]
MapFig(columns, filtered, global_state) ==
    IF "LATITUDE" \in columns /\ "LONGITUDE" \in columns
    THEN MapOf(columns, MapFrame(filtered, global_state))
    ELSE [fig |-> empty_fig, np_random |-> global_state]
\* Line 199.
SummaryText(filtered) == "Showing " \o str(len(filtered)) \o " crashes after filters."

\* What the caller gets from the figures built: the six outputs, or the
\* exception one of the plotly calls raised.
Outcome(figs, summary_text) ==
    IF \E i \in 1..5 : figs[i] = ValueError
    THEN [raised |-> TRUE, figs |-> <<>>, summary |-> "ValueError"]
    ELSE [raised |-> FALSE, figs |-> figs, summary |-> summary_text]

\* Lines 172-200, for a non-empty working set.
Aggregate(columns, filtered, map) ==
    [filtered |-> filtered,
     out |-> Outcome(<<BarFig(filtered), TsFig(filtered), HeatFig(columns, filtered), PieFig(filtered), map.fig>>,
                     SummaryText(filtered)),
     np_random |-> map.np_random]

\* Lines 168-200.
Report(columns, filtered, global_state) ==
    IF empty(filtered)
    THEN [filtered |-> filtered,
          out |-> [raised |-> FALSE,
                   figs |-> <<empty_fig, empty_fig, empty_fig, empty_fig, empty_fig>>,
                   summary |-> "No crashes match the filters."],
          np_random |-> global_state]
    ELSE Aggregate(columns, filtered, MapFig(columns, filtered, global_state))

\* Lines 144-200.  g holds the globals the callback reads.  The result is
\* [filtered, out, np_random]: the working set after the filters, what the
\* caller gets (the six outputs, or the exception raised), and the global
\* generator's state afterwards.
update_report(g, n_clicks, borough_value, year_value, injury_type_value, vehicle_types, contrib_factors) ==
    Report(g.df.columns,
           ApplyFilters(g.df, g.vehicle_cols, g.factor_cols, borough_value, year_value,
                        injury_type_value, vehicle_types, contrib_factors),
           g.np_random)

\* --------------------------------------------------------------- actions
NoFrame == [columns |-> {}, rows |-> <<>>]
NoCall == [called |-> FALSE]

\* The draws are read only when a frame of more than SampleCap rows with
\* coordinates is sampled; for the files that have no such frame they are
\* held at one value.
CanSample(file) ==
    /\ {"LATITUDE", "LONGITUDE"} \subseteq file.columns
    /\ len(dropna(file.rows, {"LATITUDE", "LONGITUDE"})) > SampleCap

Init ==
    /\ csv \in Files
    /\ pc = "import"
    /\ df = NoFrame
    /\ borough_options = {}
    /\ year_options = <<>>
    /\ vehicle_cols = {}
    /\ vehicle_type_options = {}
    /\ factor_cols = {}
    /\ contributing_factor_options = {}
    /\ np_random = 0
    /\ seeded_draws \in (IF CanSample(csv) THEN Draws ELSE {[j \in 1..MaxExcess |-> 0]})
    /\ last = NoCall

\* Lines 14-35: the module body.
Load ==
    /\ pc = "import"
    /\ LET frame == EnsureCrashYear(csv)
       IN /\ df' = frame
          /\ borough_options' = BoroughOptions(frame)
          /\ year_options' = YearOptions(frame)
          /\ vehicle_cols' = VehicleCols(frame)
          /\ vehicle_type_options' = OptionsAcross(frame, VehicleCols(frame))
          /\ factor_cols' = FactorCols(frame)
          /\ contributing_factor_options' = OptionsAcross(frame, FactorCols(frame))
    /\ pc' = "serving"
    /\ UNCHANGED <<csv, np_random, seeded_draws, last>>

Globals ==
    [df |-> df, vehicle_cols |-> vehicle_cols, factor_cols |-> factor_cols,
     np_random |-> np_random]

\* What the dropdowns of the layout (lines 77-106) can hold.
BoroughChoices == {None} \cup {<<b>> : b \in borough_options}
YearChoices == {None} \cup {<<y>> : y \in Range(year_options)}
MultiChoices(options) == {None} \cup {<<S>> : S \in SUBSET options}

Call(n_clicks, b, y, inj, vt, cf) ==
    LET r == update_report(Globals, n_clicks, b, y, inj, vt, cf)
    IN /\ last' = [called |-> TRUE,
                   args |-> [borough_value |-> b, year_value |-> y,
                             injury_type_value |-> inj, vehicle_types |-> vt,
                             contrib_factors |-> cf],
                   filtered |-> r.filtered,
                   out |-> r.out]
       /\ np_random' = r.np_random
       /\ UNCHANGED <<csv, pc, seeded_draws, df, borough_options, year_options, vehicle_cols,
                      vehicle_type_options, factor_cols, contributing_factor_options>>

\* Dash runs the callback once when the page loads, with the layout's
\* initial values (n_clicks=0, injury type "all", nothing else chosen).
PageLoad ==
    /\ pc = "serving"
    /\ last = NoCall
    /\ Call(0, None, None, "all", None, None)

\* A click on "Generate Report" with the dropdowns' current values.
GenerateReport ==
    /\ pc = "serving"
    /\ last = NoCall
    /\ \E n_clicks \in 1..MaxClicks, b \in BoroughChoices, y \in YearChoices,
          inj \in injury_type_options,
          vt \in MultiChoices(vehicle_type_options),
          cf \in MultiChoices(contributing_factor_options) :
            Call(n_clicks, b, y, inj, vt, cf)

\* The server sends the callback's response and keeps nothing of it; requests
\* are handled one at a time.
Respond ==
    /\ pc = "serving"
    /\ last # NoCall
    /\ last' = NoCall
    /\ UNCHANGED <<csv, pc, seeded_draws, globals>>

Next == Load \/ PageLoad \/ GenerateReport \/ Respond

Spec == Init /\ [][Next]_vars

\* ------------------------------------------------------- the properties
\* The predicates of a selection, told row by row.
BoroughOk(row, args) ==
    args.borough_value # None => row["BOROUGH"] = args.borough_value
YearOk(row, args) ==
    args.year_value # None => row["CRASH_YEAR"] = args.year_value
InjuryOk(row, args) ==
    /\ args.injury_type_value = "injured" =>
          notna(row["NUMBER OF PERSONS INJURED"]) /\ row["NUMBER OF PERSONS INJURED"][1] > 0
    /\ args.injury_type_value = "killed" =>
          notna(row["NUMBER OF PERSONS KILLED"]) /\ row["NUMBER OF PERSONS KILLED"][1] > 0
Chosen(list) == list # None /\ list[1] # {}
AnyOf(row, cols, list) == \E c \in cols : \E v \in list[1] : row[c] = <<v>>
VehicleOk(row, args) ==
    Chosen(args.vehicle_types) => AnyOf(row, VehicleColumnNames, args.vehicle_types)
FactorOk(row, args) ==
    Chosen(args.contrib_factors) => AnyOf(row, FactorColumnNames, args.contrib_factors)
Satisfies(row, args) ==
    /\ BoroughOk(row, args) /\ YearOk(row, args) /\ InjuryOk(row, args)
    /\ VehicleOk(row, args) /\ FactorOk(row, args)

Runs(rows) == {rows[i] : i \in 1..Len(rows)}
RECURSIVE Total(_, _)
\* the sum of f over a finite set of keys
Total(f, keys) ==
    IF keys = {} THEN 0
    ELSE LET k == CHOOSE x \in keys : TRUE IN f[k] + Total(f, keys \ {k})
HasCoords(row) == notna(row["LATITUDE"]) /\ notna(row["LONGITUDE"])
Returned == last.called /\ ~last.out.raised
NonEmptyCall == last.called /\ len(last.filtered) > 0
Min(a, b) == IF a <= b THEN a ELSE b

\* C1: the filtered set is exactly the rows of the dataset that satisfy
\* every active predicate of the selection (borough, year, injury type,
\* vehicle types, contributing factors), in the dataset's order.
C1_FilteredIsConjunction ==
    last.called =>
        last.filtered = SelectSeq(df.rows, LAMBDA run : Satisfies(run.row, last.args))

\* C1 witness: borough, year and "killed" chosen together keep some rows
\* of the dataset and drop others.
C1_Witness ==
    /\ last.called
    /\ last.args.borough_value = <<"BROOKLYN">>
    /\ last.args.year_value = <<2020>>
    /\ last.args.injury_type_value = "killed"
    /\ len(last.filtered) > 0
    /\ len(last.filtered) < len(df.rows)

\* C2: a call whose filtered set is empty returns the empty figure for all
\* five charts and the summary "No crashes match the filters.", and raises
\* nothing.
C2_EmptyResult ==
    (last.called /\ len(last.filtered) = 0) =>
        /\ ~last.out.raised
        /\ last.out.figs = <<empty_fig, empty_fig, empty_fig, empty_fig, empty_fig>>
        /\ last.out.summary = "No crashes match the filters."

\* C2 witness: a selection that matches no row of a dataset that has rows,
\* in a file whose map figure cannot be built (no crash date column).
C2_Witness ==
    /\ last.called
    /\ len(last.filtered) = 0
    /\ len(df.rows) > 0
    /\ "CRASH DATE" \notin df.columns
    /\ {"LATITUDE", "LONGITUDE"} \subseteq df.columns

\* C3: with no borough, no year, injury type "all" and the two lists absent
\* or empty, the working set is the whole dataset and the result is the
\* one the callback gives for the dataset with nothing chosen.
NothingChosen(args) ==
    /\ args.borough_value = None
    /\ args.year_value = None
    /\ args.injury_type_value = "all"
    /\ args.vehicle_types \in {None, <<{}>>}
    /\ args.contrib_factors \in {None, <<{}>>}
C3_EmptySelectionIsFullDataset ==
    (last.called /\ NothingChosen(last.args)) =>
        /\ last.filtered = df.rows
        /\ last.out = update_report(Globals, 0, None, None, "all", None, None).out
        /\ (Returned /\ len(df.rows) > 0) =>
              last.out.summary = "Showing " \o str(len(df.rows)) \o " crashes after filters."

\* C3 witness: both lists given as empty lists over a dataset with rows.
C3_Witness ==
    /\ last.called
    /\ NothingChosen(last.args)
    /\ last.args.vehicle_types = <<{}>>
    /\ last.args.contrib_factors = <<{}>>
    /\ Returned
    /\ len(df.rows) > 1

\* C4: with vehicle types chosen, a row that passes the other filters is
\* kept exactly when one of its vehicle type columns holds one of the chosen
\* values; likewise for contributing factors.
C4_AnyColumnAnyValue ==
    last.called =>
        /\ Chosen(last.args.vehicle_types) =>
              \A run \in Runs(df.rows) :
                  (/\ BoroughOk(run.row, last.args) /\ YearOk(run.row, last.args)
                   /\ InjuryOk(run.row, last.args) /\ FactorOk(run.row, last.args))
                  => (run \in Runs(last.filtered)
                        <=> AnyOf(run.row, VehicleColumnNames, last.args.vehicle_types))
        /\ Chosen(last.args.contrib_factors) =>
              \A run \in Runs(df.rows) :
                  (/\ BoroughOk(run.row, last.args) /\ YearOk(run.row, last.args)
                   /\ InjuryOk(run.row, last.args) /\ VehicleOk(run.row, last.args))
                  => (run \in Runs(last.filtered)
                        <=> AnyOf(run.row, FactorColumnNames, last.args.contrib_factors))

\* C4 witness: one vehicle type chosen; a kept row holds it in only one of
\* its vehicle type columns, a row with all vehicle type columns null is
\* dropped.
C4_Witness ==
    /\ last.called
    /\ last.args.vehicle_types = <<{"Taxi"}>>
    /\ last.args.contrib_factors = None
    /\ \E run \in Runs(last.filtered) :
          /\ run.row["VEHICLE TYPE CODE 1"] # <<"Taxi">>
          /\ run.row["VEHICLE TYPE CODE 2"] = <<"Taxi">>
    /\ \E run \in Runs(last.filtered) :
          /\ run.row["VEHICLE TYPE CODE 1"] = <<"Taxi">>
          /\ isna(run.row["VEHICLE TYPE CODE 2"])
    /\ \E run \in Runs(df.rows) \ Runs(last.filtered) :
          \A c \in VehicleColumnNames : isna(run.row[c])

\* C5: a call with a non-empty filtered set returns its six outputs
\* whichever optional columns the file has: a chart whose column is absent
\* is the empty figure and every other chart is computed.
C5_OptionalColumnsDegrade ==
    NonEmptyCall =>
        /\ ~last.out.raised
        /\ last.out.figs[1].type = "bar"
        /\ last.out.figs[2].type = "line"
        /\ last.out.figs[3].type =
              (IF {"HOUR", "DAY_OF_WEEK"} \subseteq csv.columns
               THEN "density_heatmap" ELSE "empty")
        /\ last.out.figs[4].type = "pie"
        /\ last.out.figs[5].type =
              (IF {"LATITUDE", "LONGITUDE"} \subseteq csv.columns
               THEN "scatter_mapbox" ELSE "empty")

\* C6: for a non-empty filtered set the borough histogram has one bucket
\* per distinct borough cell of the filtered set, null included, and its
\* counts sum to the number of filtered rows.
BoroughHistogramOk ==
    LET data == last.out.figs[1].data
    IN /\ last.out.figs[1].type = "bar"
       /\ DOMAIN data = {<<run.row["BOROUGH"]>> : run \in Runs(last.filtered)}
       /\ Total(data, DOMAIN data) = len(last.filtered)
C6_BoroughHistogram == NonEmptyCall => (~last.out.raised /\ BoroughHistogramOk)

\* C6, on the calls that return: the borough histogram is as C6 says.
C6_WhenReturned == (NonEmptyCall /\ Returned) => BoroughHistogramOk

\* C7: with both coordinate columns and a non-empty filtered set, the map's
\* points are filtered rows with both coordinates, min(10000, rows with
\* both coordinates) of them, and the same for every state of the global
\* generator.
MapPointsOk ==
    LET points == last.out.figs[5].data.rows
        withCoords == SelectSeq(last.filtered, LAMBDA run : HasCoords(run.row))
    IN /\ last.out.figs[5].type = "scatter_mapbox"
       /\ \A p \in Runs(points) :
             /\ HasCoords(p.row)
             /\ \E run \in Runs(last.filtered) : run.row = p.row /\ p.n <= run.n
       /\ len(points) = Min(SampleCap, len(withCoords))
       /\ \A s \in 0..(RngStates - 1) :
             /\ points = MapFrame(last.filtered, s).rows
             /\ last.out.figs[5].data.order = MapFrame(last.filtered, s).order
C7_MapPoints ==
    (NonEmptyCall /\ {"LATITUDE", "LONGITUDE"} \subseteq df.columns) =>
        (~last.out.raised /\ MapPointsOk)

\* C7, on the calls that return: the map's points are as C7 says.
C7_WhenReturned ==
    (NonEmptyCall /\ Returned /\ {"LATITUDE", "LONGITUDE"} \subseteq df.columns) =>
        MapPointsOk

\* C8: for a non-empty filtered set the summary is "Showing {count} crashes
\* after filters." with count the number of filtered rows.
SummaryOk ==
    last.out.summary = "Showing " \o str(len(last.filtered)) \o " crashes after filters."
C8_Summary == NonEmptyCall => (~last.out.raised /\ SummaryOk)

\* C8, on the calls that return: the summary is as C8 says.
C8_WhenReturned == (NonEmptyCall /\ Returned) => SummaryOk

\* C9: once loaded, the dataset and the option lists stay what the loader
\* made of the file and the global generator stays as it was, and a call's
\* outputs, whatever its click count and whatever calls came before, are
\* those of a first call (n_clicks = 0) with the same selection on the
\* freshly loaded globals, for every state of the global generator.
Loaded(state) ==
    [df |-> EnsureCrashYear(csv),
     vehicle_cols |-> VehicleCols(EnsureCrashYear(csv)),
     factor_cols |-> FactorCols(EnsureCrashYear(csv)),
     np_random |-> state]
C9_PureFunction ==
    pc = "serving" =>
        /\ df = EnsureCrashYear(csv)
        /\ borough_options = BoroughOptions(df)
        /\ year_options = YearOptions(df)
        /\ vehicle_cols = VehicleCols(df)
        /\ factor_cols = FactorCols(df)
        /\ vehicle_type_options = OptionsAcross(df, vehicle_cols)
        /\ contributing_factor_options = OptionsAcross(df, factor_cols)
        /\ np_random = 0
        /\ last.called =>
              \A s \in 0..(RngStates - 1) :
                  last.out = update_report(Loaded(s), 0, last.args.borough_value,
                                 last.args.year_value, last.args.injury_type_value,
                                 last.args.vehicle_types, last.args.contrib_factors).out

\* C9 witness: a call that returned a sampled map.
C9_Witness ==
    /\ Returned
    /\ last.out.figs[5].type = "scatter_mapbox"
    /\ len(SelectSeq(last.filtered, LAMBDA run : HasCoords(run.row))) > SampleCap
    /\ len(last.out.figs[5].data.rows) = SampleCap
    /\ last.out.figs[5].data.order # <<>>

\* C10: for a non-empty filtered set the yearly series has one bucket per
\* distinct non-null year of the filtered set, in ascending order, and its
\* counts sum to the number of filtered rows with a non-null year.
YearSeriesOk ==
    LET data == last.out.figs[2].data
        years == {run.row["CRASH_YEAR"][1] :
                     run \in {r \in Runs(last.filtered) : notna(r.row["CRASH_YEAR"])}}
    IN /\ last.out.figs[2].type = "line"
       /\ {data[i].CRASH_YEAR : i \in 1..Len(data)} = years
       /\ Len(data) = Cardinality(years)
       /\ \A i \in 1..(Len(data) - 1) : data[i].CRASH_YEAR < data[i + 1].CRASH_YEAR
       /\ \A i \in 1..Len(data) :
             data[i].count =
                 len(SelectSeq(last.filtered,
                               LAMBDA run : run.row["CRASH_YEAR"] = <<data[i].CRASH_YEAR>>))
       /\ Total([i \in 1..Len(data) |-> data[i].count], 1..Len(data)) =
             len(SelectSeq(last.filtered, LAMBDA run : notna(run.row["CRASH_YEAR"])))
C10_YearSeries == NonEmptyCall => (~last.out.raised /\ YearSeriesOk)

\* C10, on the calls that return: the yearly series is as C10 says.
C10_WhenReturned == (NonEmptyCall /\ Returned) => YearSeriesOk

\* C5, on the files that have a crash date column: the optional columns
\* degrade as C5 says.
C5_WithCrashDate == "CRASH DATE" \in csv.columns => C5_OptionalColumnsDegrade
====
